---- MODULE Spec2Model ----
(***************************************************************************)
(* tree-thinning (src/src/main.rs): parse() folds a stream of Start/End    *)
(* events into a tree holding, per nesting level, the distinct tag names   *)
(* seen there.  EventSource adapts an xml EventReader to that stream.      *)
(*                                                                         *)
(* Nodes live in a heap: an Rc<Node> is a heap address (a number), a       *)
(* Weak<Node> is the address it was downgraded from, Option::None is Null. *)
(* parse is generic in its source, so there are two specifications:        *)
(*   Spec         parse over an arbitrary iterator of ParseEvents (the     *)
(*                tests' vec![..].into_iter()),                            *)
(*   SpecAdapter  parse over EventSource over a token reader (main()).     *)
(***************************************************************************)
EXTENDS Integers, Sequences, FiniteSets, TLC

\* Bounds of the model.
MaxEvents == 6          \* events an iterator yields before it is exhausted
MaxRaw == 4             \* tokens a reader yields before it ends the document

Names == {"a", "b"}     \* local names of elements
Prefixes == {"", "p"}   \* namespace prefixes of a token's qualified name

Null == 0               \* Option::None of an Rc / Weak
IndentWidth == 2        \* length of the indentation unit "  "

VARIABLES
    raw,        \* tokens the EventReader has yielded so far (SpecAdapter)
    stderr,     \* number of diagnostics EventSource printed
    stdout,     \* the lines main has printed
    event,      \* Option<ParseEvent> the last source.next() returned
    events,     \* the ParseEvents delivered to parse so far, in order
    children,   \* heap: address -> the node's children HashMap (name -> address)
    parent,     \* heap: address -> the node's parent (Null: None)
    root,       \* parse's local `root`
    node,       \* parse's local `node`, the current position
    result,     \* the Rc parse returned (Null until it returns)
    pc,         \* "next": calling source.next(); "match": in the loop body;
                \* "done": returned; "panic": unwound; "exit": main printed
    alloc,      \* where this run's allocator places new nodes
    maxdepth    \* deepest current position so far (history)

vars == <<raw, stderr, stdout, event, events, children, parent, root, node, result,
          pc, alloc, maxdepth>>

----------------------------------------------------------------------------
(* Values *)

Addresses == 1..(MaxEvents + 1)
Allocators == {"low", "high"}

None == [kind |-> "None"]
StartEvent(n) == [kind |-> "Start", name |-> n]
EndEvent(n) == [kind |-> "End", name |-> n]
ParseEvent == {StartEvent(n) : n \in Names} \cup {EndEvent(n) : n \in Names}

OwnedName == [prefix : Prefixes, local_name : Names]
XmlEvent ==
    [kind : {"StartElement", "EndElement"}, name : OwnedName]
    \cup {[kind |-> "EndDocument"], [kind |-> "Other"]}
ReaderResult == XmlEvent \cup {[kind |-> "Err"]}

EmptyMap == <<>>

Last(s) == s[Len(s)]
Front(s) == SubSeq(s, 1, Len(s) - 1)

Min(S) == CHOOSE x \in S : \A y \in S : x <= y
Max(S) == CHOOSE x \in S : \A y \in S : x >= y

\* Rc::new: the address of a fresh allocation, given the addresses in use.
RcNew(policy, used) ==
    IF policy = "low" THEN Min(Addresses \ used) ELSE Max(Addresses \ used)

----------------------------------------------------------------------------
(* The tree builder, parse().  A tree value t is                           *)
(*   [children, parent, root, node, failed].                               *)

\* let root = Rc::new(Node { children: empty, parent: None }); node = root.clone()
NewTree(policy) ==
    LET r == RcNew(policy, {})
    IN  [children |-> (r :> EmptyMap),
         parent |-> (r :> Null),
         root |-> r,
         node |-> r,
         failed |-> FALSE]

\* Nodes kept alive by strong references: the locals and the children maps.
RECURSIVE Owned(_, _)
Owned(ch, S) ==
    LET more == S \cup UNION {{ch[n][k] : k \in DOMAIN ch[n]} : n \in S}
    IN  IF more = S THEN S ELSE Owned(ch, more)

Live(t) == Owned(t.children, {t.root, t.node})

\* A builder that inserts a new child on every Start (insert for or_insert_with).
StartStepReplace(t, name, policy) ==
    LET kids == t.children[t.node]
        fresh == RcNew(policy, DOMAIN t.children)
    IN  [t EXCEPT
            !.children = (fresh :> EmptyMap)
                         @@ [@ EXCEPT ![t.node] =
                                [k \in DOMAIN kids \cup {name} |->
                                    IF k = name THEN fresh ELSE kids[k]]],
            !.parent = (fresh :> t.node) @@ @,
            !.node = fresh]

\* A builder that creates children without the parent back-reference.
StartStepNoParent(t, name, policy) ==
    LET kids == t.children[t.node]
        fresh == RcNew(policy, DOMAIN t.children)
    IN  IF name \in DOMAIN kids
        THEN [t EXCEPT !.node = kids[name]]
        ELSE [t EXCEPT
                !.children = (fresh :> EmptyMap)
                             @@ [@ EXCEPT ![t.node] = (name :> fresh) @@ kids],
                !.parent = (fresh :> Null) @@ @,
                !.node = fresh]

\* A builder that downgrades the root for every child's parent reference.
StartStepParentRoot(t, name, policy) ==
    LET kids == t.children[t.node]
        fresh == RcNew(policy, DOMAIN t.children)
    IN  IF name \in DOMAIN kids
        THEN [t EXCEPT !.node = kids[name]]
        ELSE [t EXCEPT
                !.children = (fresh :> EmptyMap)
                             @@ [@ EXCEPT ![t.node] = (name :> fresh) @@ kids],
                !.parent = (fresh :> t.root) @@ @,
                !.node = fresh]

\* A builder that does not enter a child that already exists.
StartStepSkipExisting(t, name, policy) ==
    LET kids == t.children[t.node]
        fresh == RcNew(policy, DOMAIN t.children)
    IN  IF name \in DOMAIN kids
        THEN t
        ELSE [t EXCEPT
                !.children = (fresh :> EmptyMap)
                             @@ [@ EXCEPT ![t.node] = (name :> fresh) @@ kids],
                !.parent = (fresh :> t.node) @@ @,
                !.node = fresh]

\* ParseEvent::Start(name): entry(name).or_insert_with(new child); node = child
StartStep(t, name, policy) ==
    LET kids == t.children[t.node]
        fresh == RcNew(policy, DOMAIN t.children)
    IN  IF name \in DOMAIN kids
        THEN [t EXCEPT !.node = kids[name]]
        ELSE [t EXCEPT
                !.children = (fresh :> EmptyMap)
                             @@ [@ EXCEPT ![t.node] = (name :> fresh) @@ kids],
                !.parent = (fresh :> t.node) @@ @,
                !.node = fresh]

\* A builder whose End goes back to the root instead of the parent.
EndStepToRoot(t, name) ==
    LET p == t.parent[t.node]
    IN  IF p = Null THEN [t EXCEPT !.failed = TRUE]
        ELSE [t EXCEPT !.node = t.root]

\* A builder that leaves a node only on an End carrying the node's own name.
EndStepChecked(t, name) ==
    LET p == t.parent[t.node]
    IN  IF p = Null THEN [t EXCEPT !.failed = TRUE]
        ELSE IF name \in DOMAIN t.children[p] /\ t.children[p][name] = t.node
             THEN [t EXCEPT !.node = p]
             ELSE t

\* ParseEvent::End(name): node = node.parent.as_ref().unwrap().upgrade().unwrap()
EndStep(t, name) ==
    LET p == t.parent[t.node]
    IN  IF p = Null THEN [t EXCEPT !.failed = TRUE]
        ELSE IF p \notin Live(t) THEN [t EXCEPT !.failed = TRUE]
        ELSE [t EXCEPT !.node = p]

\* A builder that returns its current position.
ReturnedCurrent(t) == t.node

\* The value parse returns once the source is exhausted.
Returned(t) == t.root

\* parse() as a function of the whole event sequence: the loop, folded.
RECURSIVE ParseLoop(_, _, _)
ParseLoop(t, evs, policy) ==
    IF evs = <<>> \/ t.failed THEN t
    ELSE LET e == Head(evs)
         IN  ParseLoop(IF e.kind = "Start" THEN StartStep(t, e.name, policy)
                                           ELSE EndStep(t, e.name),
                       Tail(evs), policy)

ParseRun(evs, policy) == ParseLoop(NewTree(policy), evs, policy)

\* Node::eq, impl PartialEq: self.children == other.children, which compares
\* the key sets and, per key, the children through Node::eq again.
RECURSIVE NodeEq(_, _, _, _)
NodeEq(c1, n1, c2, n2) ==
    /\ DOMAIN c1[n1] = DOMAIN c2[n2]
    /\ \A k \in DOMAIN c1[n1] : NodeEq(c1, c1[n1][k], c2, c2[n2][k])

\* An equality that compares the children by address (Rc::ptr_eq).
EqByAddress(c1, n1, c2, n2) ==
    /\ DOMAIN c1[n1] = DOMAIN c2[n2]
    /\ \A k \in DOMAIN c1[n1] : c1[n1][k] = c2[n2][k]

\* An equality that compares the two nodes' key sets and stops there.
EqKeysOnly(c1, n1, c2, n2) == DOMAIN c1[n1] = DOMAIN c2[n2]

\* assert_eq!(actual, expected) on two trees, each in its own heap.
Eq(c1, n1, c2, n2) == NodeEq(c1, n1, c2, n2)

\* The tests' node(hashmap!{..}): the tree of a given shape (a set of
\* name-paths closed under prefixes) built by hand, every node with parent
\* None.  A node's address in this heap is its path.
HandBuilt(paths) ==
    LET nodes == paths \cup {<<>>}
    IN  [children |->
            [p \in nodes |->
                [k \in {q[Len(q)] : q \in {x \in paths : Front(x) = p}} |->
                    Append(p, k)]],
         parent |-> [p \in nodes |-> Null],
         root |-> <<>>]

RECURSIVE Depth(_, _)
Depth(par, n) == IF par[n] = Null THEN 0 ELSE 1 + Depth(par, par[n])

Tree ==
    [children |-> children, parent |-> parent, root |-> root, node |-> node,
     failed |-> pc = "panic"]

----------------------------------------------------------------------------
(* The event adapter, EventSource::next(): what one token does to the loop *)

\* An adapter that skips a reader error like any other token.
ClassifyErrSkipped(tok) ==
    CASE tok.kind = "StartElement" -> StartEvent(tok.name.local_name)
      [] tok.kind = "EndElement" -> EndEvent(tok.name.local_name)
      [] tok.kind = "EndDocument" -> None
      [] OTHER -> [kind |-> "Continue"]

\* An adapter that names events by the qualified name, prefix included.
ClassifyQualified(tok) ==
    CASE tok.kind = "StartElement" ->
            StartEvent(tok.name.prefix \o tok.name.local_name)
      [] tok.kind = "EndElement" ->
            EndEvent(tok.name.prefix \o tok.name.local_name)
      [] tok.kind = "EndDocument" -> None
      [] tok.kind = "Err" -> None
      [] OTHER -> [kind |-> "Continue"]

Classify(tok) ==
    CASE tok.kind = "StartElement" -> StartEvent(tok.name.local_name)
      [] tok.kind = "EndElement" -> EndEvent(tok.name.local_name)
      [] tok.kind = "EndDocument" -> None
      [] tok.kind = "Err" -> None
      [] OTHER -> [kind |-> "Continue"]

----------------------------------------------------------------------------
(* Display: Node::print().  The text is a sequence of lines, each          *)
(* [indent (spaces), tag, name]: "empty" <name />, "open" <name>,          *)
(* "close" </name>.  A HashMap iterates in an order of its own, so print   *)
(* gives one of several texts: NodePrint is the set of them.               *)

Line(indent, tag, name) == [indent |-> indent, tag |-> tag, name |-> name]

\* An indentation of one space per level.
IndentOneSpace(depth) == depth

\* "  ".repeat(depth)
Indent(depth) == IndentWidth * depth

\* The loop of print over the entries `keys` of node n's children.
RECURSIVE PrintEntries(_, _, _, _)
PrintEntries(ch, n, depth, keys) ==
    IF keys = {} THEN {<<>>}
    ELSE UNION {
            LET c == ch[n][k]
                entry ==
                    IF Cardinality(DOMAIN ch[c]) < 1
                    THEN {<<Line(Indent(depth), "empty", k)>>}
                    ELSE {<<Line(Indent(depth), "open", k)>> \o inner
                            \o <<Line(Indent(depth), "close", k)>> :
                          inner \in PrintEntries(ch, c, depth + 1, DOMAIN ch[c])}
            IN  {e \o rest : e \in entry,
                             rest \in PrintEntries(ch, n, depth, keys \ {k})}
            : k \in keys}

NodePrint(ch, n, depth) == PrintEntries(ch, n, depth, DOMAIN ch[n])

----------------------------------------------------------------------------
(* Initial states *)

Init ==
    /\ alloc \in Allocators
    /\ raw = <<>>
    /\ stderr = 0
    /\ stdout = <<>>
    /\ event = None
    /\ events = <<>>
    /\ children = NewTree(alloc).children
    /\ parent = NewTree(alloc).parent
    /\ root = NewTree(alloc).root
    /\ node = NewTree(alloc).node
    /\ result = Null
    /\ pc = "next"
    /\ maxdepth = 0

----------------------------------------------------------------------------
(* Actions of the source *)

\* An iterator of ParseEvents yields its next event.
IterNext ==
    /\ pc = "next"
    /\ Len(events) < MaxEvents
    /\ \E e \in ParseEvent :
        /\ event' = e
        /\ events' = Append(events, e)
    /\ pc' = "match"
    /\ UNCHANGED <<raw, stderr, stdout, children, parent, root, node, result, alloc,
                   maxdepth>>

\* A loop that does not leave when the iterator is exhausted.
IterEndIgnored ==
    /\ pc = "next"
    /\ event' = None
    /\ pc' = "next"
    /\ UNCHANGED <<raw, stderr, stdout, events, children, parent, root, node, result,
                   alloc, maxdepth>>

\* The iterator is exhausted.
IterEnd ==
    /\ pc = "next"
    /\ event' = None
    /\ pc' = "match"
    /\ UNCHANGED <<raw, stderr, stdout, events, children, parent, root, node, result,
                   alloc, maxdepth>>

\* One turn of EventSource::next's loop: the reader yields tok.
ReaderYield(tok) ==
    /\ pc = "next"
    /\ raw' = Append(raw, tok)
    /\ stderr' = IF tok.kind = "Err" THEN stderr + 1 ELSE stderr
    /\ LET c == Classify(tok)
       IN  IF c.kind = "Continue"
           THEN UNCHANGED <<event, events, pc>>
           ELSE /\ event' = c
                /\ events' = IF c = None THEN events ELSE Append(events, c)
                /\ pc' = "match"
    /\ UNCHANGED <<stdout, children, parent, root, node, result, alloc,
                   maxdepth>>

AdapterNext ==
    \/ /\ Len(raw) < MaxRaw
       /\ \E tok \in XmlEvent \ {[kind |-> "EndDocument"]} : ReaderYield(tok)
    \/ ReaderYield([kind |-> "EndDocument"])
    \/ ReaderYield([kind |-> "Err"])

----------------------------------------------------------------------------
(* Actions of parse *)

Start ==
    /\ pc = "match"
    /\ event.kind = "Start"
    /\ LET t == StartStep(Tree, event.name, alloc)
       IN  /\ children' = t.children
           /\ parent' = t.parent
           /\ node' = t.node
           /\ maxdepth' = IF Depth(t.parent, t.node) > maxdepth
                          THEN Depth(t.parent, t.node) ELSE maxdepth
    /\ pc' = "next"
    /\ UNCHANGED <<raw, stderr, stdout, event, events, root, result, alloc>>

End ==
    /\ pc = "match"
    /\ event.kind = "End"
    /\ LET t == EndStep(Tree, event.name)
       IN  /\ node' = t.node
           /\ pc' = IF t.failed THEN "panic" ELSE "next"
    /\ UNCHANGED <<raw, stderr, stdout, event, events, children, parent, root, result,
                   alloc, maxdepth>>

Return ==
    /\ pc = "match"
    /\ event.kind = "None"
    /\ result' = Returned(Tree)
    /\ pc' = "done"
    /\ UNCHANGED <<raw, stderr, stdout, event, events, children, parent, root, node,
                   alloc, maxdepth>>

\* main: println!("{}", tree), the text of tree.print(0) and a line break.
Display ==
    /\ pc = "done"
    /\ \E text \in NodePrint(children, result, 0) :
            stdout' = Append(text, Line(0, "blank", ""))
    /\ pc' = "exit"
    /\ UNCHANGED <<raw, stderr, event, events, children, parent, root, node,
                   result, alloc, maxdepth>>

Next == IterNext \/ IterEnd \/ Start \/ End \/ Return

NextAdapter == AdapterNext \/ Start \/ End \/ Return \/ Display

Spec == Init /\ [][Next]_vars

SpecAdapter == Init /\ [][NextAdapter]_vars

\* parse runs on one thread without suspension points: while a step of the
\* loop is possible, one is taken.
FairSpec == Init /\ [][Next]_vars /\ WF_vars(Next)

----------------------------------------------------------------------------
(* What the input says, read off the event sequence alone.                 *)

\* The names of the elements open after evs, outermost first; an End closes
\* the innermost open element, whatever its name.
RECURSIVE OpenStack(_)
OpenStack(evs) ==
    IF evs = <<>> THEN <<>>
    ELSE LET before == OpenStack(Front(evs))
         IN  IF Last(evs).kind = "Start" THEN Append(before, Last(evs).name)
             ELSE IF before = <<>> THEN before ELSE Front(before)

StackBefore(evs, i) == OpenStack(SubSeq(evs, 1, i - 1))

\* The chains of enclosing names of the elements of evs.
ElementPaths(evs) ==
    {OpenStack(SubSeq(evs, 1, i)) : i \in {j \in 1..Len(evs) : evs[j].kind = "Start"}}

\* An End arrives while no element is open.
Underflows(evs) ==
    \E i \in 1..Len(evs) : evs[i].kind = "End" /\ StackBefore(evs, i) = <<>>

\* Every End closes the innermost open element and carries its name.
WellNested(evs) ==
    \A i \in 1..Len(evs) :
        evs[i].kind = "End" =>
            /\ StackBefore(evs, i) # <<>>
            /\ Last(StackBefore(evs, i)) = evs[i].name

Balanced(evs) == WellNested(evs) /\ OpenStack(evs) = <<>>

MaxNesting(evs) ==
    LET depths == {Len(OpenStack(SubSeq(evs, 1, i))) : i \in 0..Len(evs)}
    IN  CHOOSE d \in depths : \A x \in depths : x <= d

\* The End that closes the element started at i (0: still open).
CloseOf(evs, i) ==
    LET closers == {j \in (i + 1)..Len(evs) :
                        Len(OpenStack(SubSeq(evs, 1, j))) = Len(StackBefore(evs, i))}
    IN  IF closers = {} THEN 0 ELSE CHOOSE j \in closers : \A x \in closers : j <= x

\* Start(X) ... End(X), complete, beginning at i.
CompleteBlock(evs, i) ==
    /\ evs[i].kind = "Start"
    /\ CloseOf(evs, i) # 0
    /\ evs[CloseOf(evs, i)].name = evs[i].name

\* The starts of the elements named X directly under the position q.
Occurrences(evs, q, X) ==
    {i \in 1..Len(evs) : evs[i] = StartEvent(X) /\ StackBefore(evs, i) = q}

\* The paths, relative to it, below the element started at i.
Contribution(evs, i) ==
    ElementPaths(SubSeq(evs, i + 1,
                        IF CloseOf(evs, i) = 0 THEN Len(evs) ELSE CloseOf(evs, i) - 1))

(* What the tree says, read off the heap alone.                            *)

\* The name-paths from node n down.
RECURSIVE PathsFrom(_, _)
PathsFrom(ch, n) ==
    UNION {{<<k>>} \cup {<<k>> \o p : p \in PathsFrom(ch, ch[n][k])} : k \in DOMAIN ch[n]}

\* The node at name-path q from n (Null: there is none).
RECURSIVE NodeAt(_, _, _)
NodeAt(ch, n, q) ==
    IF q = <<>> THEN n
    ELSE IF Head(q) \in DOMAIN ch[n] THEN NodeAt(ch, ch[n][Head(q)], Tail(q))
    ELSE Null

\* Every delivered event has been handled, and none of them failed.
Settled == pc \in {"next", "done"} \/ (pc = "match" /\ event = None)

\* Every delivered event has been handled (the last one may have failed).
Handled == Settled \/ pc = "panic"

----------------------------------------------------------------------------
(* C1 *)

\* C1: an End handled while the current position is the root is a no-op:
\* parse does not fail, no children map changes, and the current position
\* is still the root.
C1_StrayEndIsNoOp ==
    [][(pc = "match" /\ event.kind = "End" /\ node = root) =>
            (pc' = "next" /\ children' = children /\ node' = root)]_vars

----------------------------------------------------------------------------
(* C2 *)

\* C2: for a well-nested input the returned tree has a node at a name-path
\* exactly when the input has an element with that chain of enclosing names;
\* the empty input gives a root without children.
C2_TreeIsTrieOfPaths ==
    (pc = "done" /\ WellNested(events)) =>
        /\ PathsFrom(children, result) = ElementPaths(events)
        /\ (events = <<>> => DOMAIN children[result] = {})

C2_Witness ==
    /\ pc = "done"
    /\ Balanced(events)
    /\ MaxNesting(events) >= 2
    /\ Cardinality(ElementPaths(events)) >= 2
    /\ Cardinality({i \in 1..Len(events) : events[i].kind = "Start"})
         > Cardinality(ElementPaths(events))

----------------------------------------------------------------------------
(* C3 *)

\* C3: once X has occurred as two or more complete sibling blocks under one
\* parent position, the parent node has exactly one child for X (one node
\* per key, none orphaned), and the subtree of that child is the union of
\* what every occurrence of X at that position contributed.
C3_Dedup ==
    Handled =>
        \A q \in ElementPaths(events) \cup {<<>>} : \A X \in Names :
            LET occ == Occurrences(events, q, X)
                p == NodeAt(children, root, q)
            IN  Cardinality({i \in occ : CompleteBlock(events, i)}) >= 2 =>
                    /\ p # Null
                    /\ X \in DOMAIN children[p]
                    /\ Cardinality({n \in DOMAIN parent : parent[n] = p})
                         = Cardinality(DOMAIN children[p])
                    /\ PathsFrom(children, children[p][X])
                         = UNION {Contribution(events, i) : i \in occ}

\* X twice under one parent, the occurrences contributing different subtrees.
C3_Witness ==
    /\ pc = "done"
    /\ \E q \in ElementPaths(events) \cup {<<>>} : \E X \in Names :
        LET occ == Occurrences(events, q, X)
        IN  /\ Cardinality({i \in occ : CompleteBlock(events, i)}) >= 2
            /\ \E i, j \in occ : Contribution(events, i) # Contribution(events, j)

----------------------------------------------------------------------------
(* C4 *)

\* C4: Start(name) with no child `name` under the current node creates
\* exactly one node, with an empty children map, and inserts it under `name`;
\* with such a child it creates nothing and changes no children map.  Either
\* way the current position becomes that child.
C4_StartCreatesOrReuses ==
    [][(pc = "match" /\ event.kind = "Start") =>
        LET kids == children[node]
            name == event.name
        IN  IF name \in DOMAIN kids
            THEN /\ children' = children
                 /\ parent' = parent
                 /\ node' = kids[name]
            ELSE /\ Cardinality(DOMAIN children' \ DOMAIN children) = 1
                 /\ DOMAIN children \subseteq DOMAIN children'
                 /\ node' \notin DOMAIN children
                 /\ DOMAIN children'[node'] = {}
                 /\ DOMAIN children'[node] = DOMAIN kids \cup {name}
                 /\ children'[node][name] = node'
                 /\ \A k \in DOMAIN kids : children'[node][k] = kids[k]
                 /\ \A n \in DOMAIN children \ {node} : children'[n] = children[n]
       ]_vars

\* A Start has just reused a child that already had a subtree.
C4_Witness ==
    /\ pc = "next"
    /\ events # <<>>
    /\ Last(events).kind = "Start"
    /\ DOMAIN children[node] # {}

----------------------------------------------------------------------------
(* C5 *)

\* C5: for a well-nested input the deepest current position reached (counted
\* in parent links to the root) is the input's maximum nesting depth, and
\* after the last event of a balanced input the current position is the root.
C5_Depth ==
    Settled =>
        /\ WellNested(events) => maxdepth = MaxNesting(events)
        /\ Balanced(events) => (node = root /\ Depth(parent, node) = 0)

C5_Witness ==
    /\ pc = "done"
    /\ Balanced(events)
    /\ maxdepth >= 2
    /\ Len(events) > 2 * maxdepth

----------------------------------------------------------------------------
(* C6 *)

\* C6: parse returns the root, the node made before the first event, and not
\* the current node, also when elements are still open; every node created
\* is in the returned tree.
C6_ReturnsRoot ==
    pc = "done" =>
        /\ result = root
        /\ result = NewTree(alloc).root
        /\ parent[result] = Null
        /\ Owned(children, {result}) = DOMAIN children

\* Returned with two elements still open.
C6_Witness ==
    /\ pc = "done"
    /\ Depth(parent, node) >= 2
    /\ Cardinality(DOMAIN children) >= 4

----------------------------------------------------------------------------
(* C7 *)

\* C7: parse fails only on an End that arrives at the root; a current node
\* other than the root has a parent back-reference, and it resolves to a
\* live node.
C7_OnlyFailure ==
    /\ node # root => (parent[node] # Null /\ parent[node] \in Live(Tree))
    /\ pc = "panic" => Underflows(events)

\* Ends handled below the root, none at the root, and no failure.
C7_Witness ==
    /\ pc = "next"
    /\ ~Underflows(events)
    /\ Cardinality({i \in 1..Len(events) : events[i].kind = "End"}) >= 2
    /\ Depth(parent, node) >= 2

----------------------------------------------------------------------------
(* C8 *)

\* Two complete sibling blocks, the second beginning right after the first.
AdjacentBlocks(evs, i) ==
    /\ CompleteBlock(evs, i)
    /\ CloseOf(evs, i) < Len(evs)
    /\ CompleteBlock(evs, CloseOf(evs, i) + 1)

\* evs with the two blocks at i exchanged.
Swapped(evs, i) ==
    LET j == CloseOf(evs, i)
        k == CloseOf(evs, j + 1)
    IN  SubSeq(evs, 1, i - 1) \o SubSeq(evs, j + 1, k) \o SubSeq(evs, i, j)
            \o SubSeq(evs, k + 1, Len(evs))

\* C8: exchanging two complete sibling blocks of the input gives a tree
\* equal, by Node::eq, to the tree of the input as it was.
C8_SiblingOrder ==
    pc = "done" =>
        \A i \in 1..Len(events) :
            AdjacentBlocks(events, i) =>
                LET other == ParseRun(Swapped(events, i), alloc)
                IN  /\ ~other.failed
                    /\ Eq(other.children, Returned(other), children, result)

\* Two sibling blocks of different names under a parent below the root.
C8_Witness ==
    /\ pc = "done"
    /\ \E i \in 1..Len(events) :
        /\ AdjacentBlocks(events, i)
        /\ events[i].name # events[CloseOf(events, i) + 1].name
        /\ StackBefore(events, i) # <<>>
        /\ Swapped(events, i) # events

----------------------------------------------------------------------------
(* C9 *)

\* C9: a second run of parse on the same events, wherever its allocator
\* places the nodes, gives a tree equal by Node::eq to this run's.
C9_Determinism ==
    pc = "done" =>
        \A policy \in Allocators :
            LET again == ParseRun(events, policy)
            IN  /\ ~again.failed
                /\ Eq(children, result, again.children, Returned(again))
                /\ Eq(again.children, Returned(again), children, result)

\* A finished run of the other allocator, with nodes at two levels.
C9_Witness ==
    /\ pc = "done"
    /\ alloc = "high"
    /\ Cardinality(DOMAIN children) >= 4
    /\ \E n \in DOMAIN parent : Depth(parent, n) >= 2
    /\ ParseRun(events, "low").children # children

----------------------------------------------------------------------------
(* C10 *)

\* The events of the element tokens of toks, in order.
RECURSIVE ElementEvents(_)
ElementEvents(toks) ==
    IF toks = <<>> THEN <<>>
    ELSE LET rest == ElementEvents(Front(toks))
             tok == Last(toks)
         IN  IF tok.kind = "StartElement"
                 THEN Append(rest, StartEvent(tok.name.local_name))
             ELSE IF tok.kind = "EndElement"
                 THEN Append(rest, EndEvent(tok.name.local_name))
             ELSE rest

\* C10: a reader error makes EventSource::next return None, it is the last
\* token read, the events of the element tokens before it have been
\* delivered in order, and parse then returns the tree of that prefix.
C10_ErrorTruncates ==
    /\ \A i \in 1..(Len(raw) - 1) : raw[i].kind # "Err"
    /\ (raw # <<>> /\ Last(raw).kind = "Err") =>
            /\ event = None
            /\ pc \in {"match", "done", "exit"}
            /\ events = ElementEvents(Front(raw))
            /\ pc \in {"done", "exit"} =>
                    /\ result = root
                    /\ PathsFrom(children, result) = ElementPaths(events)

\* Returned after an error that cut the document inside two open elements.
C10_Witness ==
    /\ pc = "done"
    /\ raw # <<>>
    /\ Last(raw).kind = "Err"
    /\ Len(events) >= 3
    /\ Depth(parent, node) >= 2

----------------------------------------------------------------------------
(* C11 *)

Terminators == {"EndDocument", "Err"}

\* C11: the events EventSource delivers are exactly the element tokens read,
\* in order, each as Start / End of its local name; nothing is read past the
\* first end-of-document or error, which ends the sequence; any other token
\* neither produces an event nor ends the sequence.
C11_AdapterFilters ==
    /\ events = ElementEvents(raw)
    /\ \A i \in 1..(Len(raw) - 1) : raw[i].kind \notin Terminators
    /\ raw # <<>> =>
        LET tok == Last(raw)
        IN  /\ tok.kind \in Terminators =>
                    (event = None /\ pc \in {"match", "done", "exit"})
            /\ tok.kind \in {"StartElement", "EndElement"} =>
                    /\ pc \notin {"done", "exit"}
                    /\ event = Last(events)
                    /\ event.name = tok.name.local_name
                    /\ event.kind = (IF tok.kind = "StartElement" THEN "Start" ELSE "End")
            /\ tok.kind = "Other" => pc = "next"

\* A document with a skipped token and a prefixed name, read to its end.
C11_Witness ==
    /\ pc = "done"
    /\ Last(raw).kind = "EndDocument"
    /\ Len(events) >= 2
    /\ \E i \in 1..Len(raw) : raw[i].kind = "Other"
    /\ \E i \in 1..Len(raw) :
            raw[i].kind \in {"StartElement", "EndElement"} /\ raw[i].name.prefix = "p"

----------------------------------------------------------------------------
(* C12 *)

\* The delivered events parse has handled: all but one still in the loop
\* body, and all but the End that failed.
HandledEvents ==
    IF (pc = "match" /\ event # None) \/ pc = "panic" THEN Front(events) ELSE events

\* The node k parent links above n (Null: the chain ends before).
RECURSIVE Ancestor(_, _, _)
Ancestor(par, n, k) ==
    IF k = 0 THEN n
    ELSE IF par[n] = Null THEN Null
    ELSE Ancestor(par, par[n], k - 1)

\* C12: in every state the one current node is a node of the heap, it is
\* where the names of the open elements lead from the root through the
\* children maps, and its parent links reach the root in as many steps as
\* there are open elements.
C12_CurrentPosition ==
    LET open == OpenStack(HandledEvents)
    IN  /\ node \in DOMAIN children
        /\ NodeAt(children, root, open) = node
        /\ Ancestor(parent, node, Len(open)) = root
        /\ Depth(parent, node) = Len(open)

\* Three elements open, after an element was closed and entered again.
C12_Witness ==
    /\ pc = "next"
    /\ Len(OpenStack(events)) >= 3
    /\ \E i \in 1..Len(events) : events[i].kind = "End"
    /\ Cardinality(DOMAIN children) <= Len(OpenStack(events)) + 1

----------------------------------------------------------------------------
(* C13 *)

\* The places (node, key) whose child is n.
Holders(ch, n) ==
    {mk \in UNION {{<<m, k>> : k \in DOMAIN ch[m]} : m \in DOMAIN ch} :
        ch[mk[1]][mk[2]] = n}

\* The nodes below n through children links.
Descendants(ch, n) == Owned(ch, {ch[n][k] : k \in DOMAIN ch[n]})

\* C13: the root has no parent; every other node is the child at exactly one
\* place of exactly one node, the one its parent reference names; and no
\* node is below itself.
C13_StrictTree ==
    /\ DOMAIN parent = DOMAIN children
    /\ parent[root] = Null
    /\ Holders(children, root) = {}
    /\ \A n \in DOMAIN children \ {root} :
        /\ Cardinality(Holders(children, n)) = 1
        /\ \A mk \in Holders(children, n) : parent[n] = mk[1]
    /\ \A n \in DOMAIN children : n \notin Descendants(children, n)

\* Nodes at three levels, two of them siblings.
C13_Witness ==
    /\ Cardinality(DOMAIN children) >= 5
    /\ \E n \in DOMAIN children : Depth(parent, n) >= 3
    /\ \E n \in DOMAIN children : Cardinality(DOMAIN children[n]) >= 2

----------------------------------------------------------------------------
(* C14 *)

\* C14: no step removes anything: every node stays, every key of every
\* children map stays and keeps its child, and so the name-paths of the tree
\* after a step include those before it.
C14_OnlyGrows ==
    [][/\ root' = root
       /\ DOMAIN children \subseteq DOMAIN children'
       /\ \A n \in DOMAIN children :
            /\ DOMAIN children[n] \subseteq DOMAIN children'[n]
            /\ \A k \in DOMAIN children[n] : children'[n][k] = children[n][k]
       /\ PathsFrom(children, root) \subseteq PathsFrom(children', root')
      ]_vars

\* A child with a subtree has been entered again and given a second child,
\* which is the current node.
C14_Witness ==
    /\ pc = "next"
    /\ Len(OpenStack(events)) >= 2
    /\ Cardinality(DOMAIN children[parent[node]]) >= 2
    /\ Cardinality(Occurrences(events, Front(Front(OpenStack(events))),
                               Last(Front(OpenStack(events))))) >= 2

----------------------------------------------------------------------------
(* C15 *)

\* C15: an End handled below the root moves the current position to the
\* parent of the current node, whatever name it carries, and changes no
\* children map and no parent reference.
C15_EndPops ==
    [][(pc = "match" /\ event.kind = "End" /\ node # root) =>
            /\ node' = parent[node]
            /\ pc' = "next"
            /\ children' = children
            /\ parent' = parent
      ]_vars

\* An End has just closed an element of another name.
C15_Witness ==
    /\ pc = "next"
    /\ events # <<>>
    /\ Last(events).kind = "End"
    /\ StackBefore(events, Len(events)) # <<>>
    /\ Last(StackBefore(events, Len(events))) # Last(events).name
    /\ Depth(parent, node) >= 1

----------------------------------------------------------------------------
(* C16 *)

\* C16: a Start makes the current position one level deeper, the child new
\* or not; an End handled below the root makes it one level less deep; no
\* step changes the depth by more than one.
C16_DepthSteps ==
    [][LET d == Depth(parent, node)
           e == Depth(parent', node')
       IN  /\ (pc = "match" /\ event.kind = "Start") => e = d + 1
           /\ (pc = "match" /\ event.kind = "End" /\ d > 0) => e = d - 1
           /\ e - d \in {-1, 0, 1}
      ]_vars

\* An existing child two levels down has just been entered again.
C16_Witness ==
    /\ pc = "next"
    /\ events # <<>>
    /\ Last(events).kind = "Start"
    /\ Depth(parent, node) >= 2
    /\ Cardinality(Occurrences(events, StackBefore(events, Len(events)),
                               Last(events).name)) >= 2

----------------------------------------------------------------------------
(* C17 *)

\* C17: parse comes to an end, by returning unless an End arrived at the
\* root; when it returns every delivered event has been handled once and in
\* order (the tree and the position are those the event sequence gives), and
\* nothing changes after the return.
C17_Terminates ==
    /\ <>(pc \in {"done", "panic"})
    /\ [](~Underflows(events)) => <>(pc = "done")
    /\ [](pc = "done" =>
            /\ HandledEvents = events
            /\ result = root
            /\ PathsFrom(children, result) = ElementPaths(events)
            /\ Depth(parent, node) = Len(OpenStack(events)))
    /\ [][pc = "done" =>
            (children' = children /\ parent' = parent /\ result' = result
             /\ events' = events /\ pc' = "done")]_vars

\* Returned after a full-length input.
C17_Witness ==
    /\ pc = "done"
    /\ Len(events) = MaxEvents
    /\ Cardinality(DOMAIN children) >= 4

----------------------------------------------------------------------------
(* C18 *)

\* Shapes to compare the built tree with: its own, its own less one leaf,
\* and those of the input's prefixes.
Shapes ==
    LET own == PathsFrom(children, root)
    IN  {own}
        \cup {own \ {p} : p \in {x \in own : \A y \in own : Front(y) # x}}
        \cup {ElementPaths(SubSeq(events, 1, i)) : i \in 0..Len(events)}

\* C18: the tree parse returns, whose nodes below the root all carry a
\* parent reference, is equal by Node::eq to the hand-built tree of a shape,
\* whose nodes carry none, exactly when that shape is its own: the same keys
\* at every node, recursively.
C18_StructuralEquality ==
    pc = "done" =>
        /\ \A n \in DOMAIN children \ {root} : parent[n] # Null
        /\ \A shape \in Shapes :
            LET expected == HandBuilt(shape)
            IN  /\ \A n \in DOMAIN expected.parent : expected.parent[n] = Null
                /\ Eq(children, result, expected.children, expected.root)
                        <=> shape = PathsFrom(children, result)
                /\ Eq(expected.children, expected.root, children, result)
                        <=> shape = PathsFrom(children, result)

\* A returned tree three levels deep with two children somewhere.
C18_Witness ==
    /\ pc = "done"
    /\ Cardinality(Shapes) >= 4
    /\ \E n \in DOMAIN children : Depth(parent, n) >= 3
    /\ \E n \in DOMAIN children : Cardinality(DOMAIN children[n]) >= 2

----------------------------------------------------------------------------
(* C19 *)

\* The text read back as events: <name> opens, </name> closes, <name />
\* does both.
RECURSIVE LineEvents(_)
LineEvents(text) ==
    IF text = <<>> THEN <<>>
    ELSE LET l == Last(text)
             before == LineEvents(Front(text))
         IN  CASE l.tag = "open" -> Append(before, StartEvent(l.name))
               [] l.tag = "close" -> Append(before, EndEvent(l.name))
               [] l.tag = "empty" -> before \o <<StartEvent(l.name), EndEvent(l.name)>>
               [] OTHER -> before

\* The names of the elements open in the text before its line i.
LineStack(text, i) == OpenStack(LineEvents(SubSeq(text, 1, i - 1)))

\* C19: printing leaves the tree as it is, and the text printed (before
\* println's line break) has one entry per node below the root: <name /> for
\* a node without children, <name> ... </name> around the entries of its
\* children otherwise, each line indented two spaces per level below the
\* root.
C19_Render ==
    /\ [](pc = "exit" =>
            LET text == Front(stdout)
                entries == {i \in 1..Len(text) : text[i].tag \in {"open", "empty"}}
            IN  /\ Last(stdout).tag = "blank"
                /\ \A i \in 1..Len(text) : text[i].tag \in {"open", "close", "empty"}
                /\ Balanced(LineEvents(text))
                /\ ElementPaths(LineEvents(text)) = PathsFrom(children, result)
                /\ Cardinality(entries) = Cardinality(Owned(children, {result})) - 1
                /\ \A i \in entries :
                    LET at == NodeAt(children, result,
                                     Append(LineStack(text, i), text[i].name))
                    IN  /\ at # Null
                        /\ text[i].tag = "empty" <=> DOMAIN children[at] = {}
                        /\ text[i].indent = IndentWidth * Len(LineStack(text, i))
                /\ \A i \in 1..Len(text) :
                    text[i].tag = "close" =>
                        text[i].indent = IndentWidth * (Len(LineStack(text, i)) - 1))
    /\ [][pc = "done" =>
            (children' = children /\ parent' = parent /\ root' = root
             /\ result' = result /\ pc' = "exit")]_vars

\* A tree three levels deep has been printed: a leaf inside two open pairs.
C19_Witness ==
    /\ pc = "exit"
    /\ \E i \in 1..Len(stdout) :
            stdout[i].tag = "open" /\ stdout[i].indent = IndentWidth
    /\ \E i \in 1..Len(stdout) :
            stdout[i].tag = "empty" /\ stdout[i].indent = IndentWidth + IndentWidth
    /\ \E i \in 1..Len(stdout) :
            stdout[i].tag = "close" /\ stdout[i].indent = IndentWidth

====
